---- MODULE Spec2Model ----
(***************************************************************************)
(* Model of the Spoofr plugin (src/Spoofr.py): the identity-spoofing       *)
(* state machine, its lock, and the host threads that run its callbacks.   *)
(* Every driver command (subprocess) is one step that may succeed or fail. *)
(* The lock is threading.Lock: not reentrant, so an acquire by the thread  *)
(* that already holds it blocks like any other acquire.                    *)
(***************************************************************************)
EXTENDS Integers, Sequences, FiniteSets, TLC

\* ------------------------------------------------------------------ bounds
NumThreads == 2          \* host threads that may run callbacks concurrently
MaxTime == 120           \* the clock stops advancing here (seconds)
MaxCallbacks == 2        \* callbacks the host starts after on_loaded
MaxCaptureFailures == 1  \* reads of the original identity that fail in on_loaded

\* --------------------------------------------------------------- constants
CheckInterval == 60      \* __defaults__["check_interval"]
TickStep == CheckInterval \div 2   \* the modelled clock advances in half intervals
StartTime == CheckInterval         \* the first poll is not rate-limited (line 243)
NameCut == 20            \* _update_ui truncates the name to 20 characters
\* options["spoof_duration"] as configured here: a hold of one poll interval
\* (__defaults__ has 300, five intervals)
SpoofDuration == CheckInterval

Threads == 1..NumThreads

NoneVal == "<None>"                                  \* Python None (a string slot)
NoSpoof == [type |-> NoneVal, name |-> NoneVal]      \* Python None (_current_spoof)

\* Python truthiness of an optional string
Truthy(s) == s # NoneVal /\ s # ""

\* A revert without the check of line 208; C4_IdempotentRevert tells it from
\* SpoofSet
SpoofSet_always(spoof) == TRUE

\* Python truthiness of self._current_spoof (line 208)
SpoofSet(spoof) == spoof # NoSpoof

\* ------------------------------------------------- the device and its reads
HomeSsid == "homeAP"
HomeBt == "homeBT"
HomeMac == "00:11:22:33:44:55"
DefaultName == "pwnagotchi"
RandomMacs == {"02:00:00:00:00:01"}

\* ------------------------------------------------- the detector's contents
\* pwn_detector._pwnagotchis.values() and ._flippers.values()
LongName == "unitA.with.a.long.hostname"    \* longer than the 20 of line 286
PwnInfos == {[name |-> LongName]}
FlipperInfos == {[type |-> "Bluetooth", name |-> "flip1"]}

\* str.lower() on the type strings that occur
Lower(s) ==
    CASE s = "Bluetooth" -> "bluetooth"
      [] s = "BLE" -> "ble"
      [] OTHER -> s

\* str.title() on the kind strings that occur
Title(s) ==
    CASE s = "wifi" -> "Wifi"
      [] s = "bluetooth" -> "Bluetooth"
      [] s = "radio" -> "Radio"
      [] s = "ble" -> "Ble"
      [] OTHER -> s

\* The name without the cut of line 286; C16_StatusText tells it from Truncate
Truncate_whole(s) == s

\* name[:20]
Truncate(s) == IF Len(s) > NameCut THEN SubSeq(s, 1, NameCut) ELSE s

\* _update_ui's display text for a value of _current_spoof
DisplayText(spoof) ==
    IF spoof = NoSpoof THEN "Spoof: None"
    ELSE "Spoof: " \o Truncate(spoof.name) \o "\n" \o Title(spoof.type)

\* ----------------------------------------------------- control POST bodies
\* json.loads(request.body.decode()): Unparseable stands for a body on which
\* it raises; every other body is the parsed object, a function from the keys
\* present to their values.
Unparseable == [unparseable |-> "yes"]
SpoofBody(ty, nm) == [action |-> "spoof", type |-> ty, name |-> nm]
WellFormedSpoofs ==
    { SpoofBody("wifi", LongName), SpoofBody("bluetooth", "flip1"),
      SpoofBody("radio", "flip1") }
MalformedSpoofs ==
    { [action |-> "spoof"],
      [action |-> "spoof", type |-> "radio"],
      [action |-> "spoof", name |-> "flip1"] }
ParsedBodies ==
    WellFormedSpoofs \cup MalformedSpoofs \cup { [action |-> "revert"] }

VARIABLES
    phase,            \* host lifecycle: "constructed", "loaded", "unloaded"
    options,          \* self.options: log_file, randomize_mac, spoof_targets
    lock,             \* self._lock: 0 free, else the holding thread
    last_spoof,       \* self._last_spoof
    current_spoof,    \* self._current_spoof
    original_ssid,    \* self._original_ssid
    original_bt_name, \* self._original_bt_name
    original_mac,     \* self._original_mac
    device,           \* the live identity: ssid, bt, mac
    now,              \* time.time()
    log,              \* lines appended to options["log_file"]
    failed,           \* history: some driver call has failed
    started,          \* history: callbacks started so far
    active_since,     \* history: time.time() when the active spoof was set
    restores,         \* history: restore calls made for the active spoof
    thr               \* per host thread: position, call stack and locals

vars == << phase, options, lock, last_spoof, current_spoof, original_ssid,
           original_bt_name, original_mac, device, now, log, failed, started,
           active_since, restores, thr >>

selfvars == << last_spoof, current_spoof, original_ssid, original_bt_name,
               original_mac >>
originals == << original_ssid, original_bt_name, original_mac >>
hist == << active_since, restores >>

\* A thread that runs no callback. pc is the source line the thread is at, stack
\* the lines its calls return to, op the callback it runs, body the parsed
\* POST body; current_time, new_spoof, cands (candidates) and display_text
\* are the locals of those names, arg the callee's parameter, ret the last
\* return value (success). History, read by no action: invoked (the thread
\* ran a driver command in this callback), derr (one of them failed), late
\* (the poll set _last_spoof less than check_interval after another poll
\* did), spoof0 (self._current_spoof when the callback took the lock), log0
\* (lines in the log when it began).
IdleThread ==
    [ pc |-> "idle", stack |-> << >>, op |-> "none", body |-> Unparseable,
      current_time |-> 0, new_spoof |-> NoSpoof, arg |-> NoneVal,
      cands |-> {}, ret |-> FALSE, invoked |-> FALSE, derr |-> FALSE,
      late |-> FALSE, spoof0 |-> NoSpoof, log0 |-> 0, display_text |-> NoneVal ]

\* __init__ (lines 52-60); the device is at its own identity
Init ==
    /\ phase = "constructed"
    /\ options \in [ log_file : {"/var/log/spoofr.json", ""},
                     randomize_mac : BOOLEAN,
                     spoof_duration : {SpoofDuration},
                     spoof_targets : {{"pwnagotchi", "flipper"}} ]
    /\ lock = 0
    /\ last_spoof = 0
    /\ current_spoof = NoSpoof
    /\ original_ssid = NoneVal
    /\ original_bt_name = NoneVal
    /\ original_mac = NoneVal
    /\ device = [ssid |-> HomeSsid, bt |-> HomeBt, mac |-> HomeMac]
    /\ now = StartTime
    /\ log = << >>
    /\ failed = FALSE
    /\ started = 0
    /\ active_since = 0
    /\ restores = 0
    /\ thr = [t \in Threads |-> IdleThread]

\* time passes; the clock is read only where a callback starts (line 242),
\* so its advance is observed only while one can still start
Tick ==
    /\ phase = "loaded"
    /\ started < MaxCallbacks
    /\ now + TickStep <= MaxTime
    /\ now' = now + TickStep
    /\ UNCHANGED << phase, options, lock, selfvars, device, log, failed, started,
                    hist, thr >>

\* on_loaded (lines 62-104): capture the originals, create the UI element.
\* _get_current_ssid and _get_current_bt_name return "pwnagotchi" when the
\* read fails, _get_current_mac returns None.
on_loaded ==
    /\ phase = "constructed"
    /\ phase' = "loaded"
    /\ \E okS \in BOOLEAN, okB \in BOOLEAN, okM \in BOOLEAN :
          /\ Cardinality({ r \in { << 1, okS >>, << 2, okB >>, << 3, okM >> } : ~r[2] })
                <= MaxCaptureFailures
          /\ original_ssid' = IF okS THEN device.ssid ELSE DefaultName
          /\ original_bt_name' = IF okB THEN device.bt ELSE DefaultName
          /\ original_mac' = IF okM THEN device.mac ELSE NoneVal
          /\ failed' = (failed \/ ~okS \/ ~okB \/ ~okM)
    /\ UNCHANGED << options, lock, last_spoof, current_spoof, device, now, log,
                    started, hist, thr >>

\* ------------------------------------------------------- thread plumbing
Goto(f, label) == [f EXCEPT !.pc = label]
\* call target; it returns to retlabel
CallFn(f, target, retlabel) ==
    [f EXCEPT !.pc = target, !.stack = << retlabel >> \o @]
\* return; the callee's argument dies with its frame
ReturnFn(f) ==
    [f EXCEPT !.pc = Head(f.stack), !.stack = Tail(@), !.arg = NoneVal]
Begin(opname, label) ==
    [IdleThread EXCEPT !.op = opname, !.pc = label, !.log0 = Len(log)]
\* A host that calls back before on_loaded has run;
\* C20_OriginalsImmutable tells it from CanBegin
CanBegin_unloaded(t) ==
    /\ phase # "unloaded"
    /\ started < MaxCallbacks
    /\ thr[t].pc = "idle"
    /\ \A u \in Threads : u < t => thr[u].pc # "idle"

\* The host hands a callback to a free thread. Idle threads are alike, so it
\* is the lowest-numbered one; no callback starts before on_loaded or after
\* on_unloaded was called.
CanBegin(t) ==
    /\ phase = "loaded"
    /\ started < MaxCallbacks
    /\ thr[t].pc = "idle"
    /\ \A u \in Threads : u < t => thr[u].pc # "idle"
Released(t) == IF lock = t THEN 0 ELSE lock

\* An exception leaves the callee: on_webhook catches it at line 312 and
\* answers with the error response; on_ui_update and on_wifi_update let it
\* pass to the host, which ends the callback (a `with` block releases the
\* lock on the way).
Unwind(f) ==
    [f EXCEPT !.pc = IF Head(f.stack) = "wh_311" THEN "wh_314" ELSE Head(f.stack),
              !.stack = Tail(@), !.arg = NoneVal]

\* _update_ui (lines 281-287). The body runs under the lock, but the reverts
\* that run without it can clear self._current_spoof between the test of
\* line 285 and the subscripts of line 286, which then raise TypeError. The
\* text handed to components.update stays visible in display_text until the
\* caller moves on.
update_ui(t) ==
    LET f == thr[t] IN
    /\ CASE f.pc = "uu_283" ->
              /\ lock = 0
              /\ IF SpoofSet(current_spoof)
                 THEN /\ lock' = t
                      /\ thr' = [thr EXCEPT ![t] = Goto(f, "uu_286")]
                 ELSE /\ lock' = lock
                      /\ thr' = [thr EXCEPT ![t] =
                                   ReturnFn([f EXCEPT !.display_text =
                                                        DisplayText(current_spoof)])]
         [] f.pc = "uu_286" ->
              /\ lock' = 0
              /\ thr' = [thr EXCEPT ![t] =
                           IF current_spoof = NoSpoof THEN Unwind(f)
                           ELSE ReturnFn([f EXCEPT !.display_text =
                                                     DisplayText(current_spoof)])]
         [] OTHER -> FALSE
    /\ UNCHANGED << phase, options, selfvars, device, now, log, failed, started,
                    hist >>

\* on_ui_update (lines 289-291)
on_ui_update(t) ==
    LET f == thr[t] IN
    /\ CASE f.pc = "idle" ->
              /\ CanBegin(t)
              /\ thr' = [thr EXCEPT ![t] =
                           CallFn(Begin("ui_update", "idle"), "uu_283", "ui_292")]
         [] f.pc = "ui_292" ->
              thr' = [thr EXCEPT ![t] = IdleThread]
         [] OTHER -> FALSE
    /\ started' = IF f.pc = "idle" THEN started + 1 ELSE started
    /\ UNCHANGED << phase, options, lock, selfvars, device, now, log, failed,
                    hist >>

\* The driver commands of one step of thread t. The step runs the commands of
\* cmds in order until one fails: done is how many succeeded (Len(cmds) when
\* none failed). A command is << what, argument >>; "set_ssid", "set_bt" and
\* "set_mac" change the live identity, the interface and service commands
\* ("if_down", "if_up", "restart_hostapd") do not.
RECURSIVE Effect(_, _, _)
Effect(dev, cmds, done) ==
    IF done = 0 THEN dev
    ELSE LET c == Head(cmds)
             d == CASE c[1] = "set_ssid" -> [dev EXCEPT !.ssid = c[2]]
                    [] c[1] = "set_bt" -> [dev EXCEPT !.bt = c[2]]
                    [] c[1] = "set_mac" -> [dev EXCEPT !.mac = c[2]]
                    [] OTHER -> dev
         IN Effect(d, Tail(cmds), done - 1)

\* thread t with frame f runs cmds; onOk and onFail are its frame afterwards
Driver(t, f, cmds, onOk, onFail) ==
    \E done \in 0..Len(cmds) :
      /\ device' = Effect(device, cmds, done)
      /\ failed' = (failed \/ done < Len(cmds))
      /\ thr' = [thr EXCEPT ![t] =
                   [(IF done = Len(cmds) THEN onOk ELSE onFail)
                      EXCEPT !.invoked = TRUE,
                             !.derr = (f.derr \/ done < Len(cmds))]]

\* the commands of lines 184-186 and 212-214
CycleMac(mac) == << << "if_down", "" >>, << "set_mac", mac >>, << "if_up", "" >> >>
Restart == << << "restart_hostapd", "" >> >>

\* _spoof_wifi (lines 171-193): rewrite hostapd.conf, cycle the MAC when
\* randomize_mac, restart hostapd; any exception returns False
spoof_wifi(t) ==
    LET f == thr[t]
        true == ReturnFn([f EXCEPT !.ret = TRUE])
        false == ReturnFn([f EXCEPT !.ret = FALSE])
    IN
    /\ CASE f.pc = "sw_175" ->
              IF options.randomize_mac
              THEN Driver(t, f, << << "set_ssid", f.arg >> >>,
                          Goto(f, "sw_184"), false)
              ELSE Driver(t, f, << << "set_ssid", f.arg >> >> \o Restart,
                          true, false)
         [] f.pc = "sw_184" ->
              \E new_mac \in RandomMacs :
                 Driver(t, f, CycleMac(new_mac) \o Restart, true, false)
         [] OTHER -> FALSE
    /\ UNCHANGED << phase, options, lock, selfvars, now, log, started, hist >>

\* _spoof_bluetooth (lines 195-203)
spoof_bluetooth(t) ==
    LET f == thr[t] IN
    /\ f.pc = "sb_198"
    /\ Driver(t, f, << << "set_bt", f.arg >> >>,
              ReturnFn([f EXCEPT !.ret = TRUE]), ReturnFn([f EXCEPT !.ret = FALSE]))
    /\ UNCHANGED << phase, options, lock, selfvars, now, log, started, hist >>

\* _revert_spoof (lines 205-220). Each read of self._current_spoof is a
\* step of its own; subscripting None raises TypeError, and every exception
\* leaves through the handler of line 219 without reaching line 217.
revert_spoof(t) ==
    LET f == [thr[t] EXCEPT !.ret = FALSE]
        raise == ReturnFn(f)
    IN
    /\ CASE f.pc = "rv_208" ->
              /\ thr' = [thr EXCEPT ![t] =
                           IF SpoofSet(current_spoof) THEN Goto(f, "rv_209")
                           ELSE ReturnFn(f)]
              /\ UNCHANGED << current_spoof, device, failed, hist >>
         [] f.pc = "rv_209" ->
              /\ thr' = [thr EXCEPT ![t] =
                           IF current_spoof = NoSpoof THEN raise
                           ELSE IF current_spoof.type = "wifi" /\ Truthy(original_ssid)
                           THEN CallFn([f EXCEPT !.arg = original_ssid],
                                       "sw_175", "rv_211")
                           ELSE Goto(f, "rv_215")]
              /\ restores' = IF thr'[t].pc = "sw_175" THEN restores + 1 ELSE restores
              /\ UNCHANGED << current_spoof, device, failed, active_since >>
         [] f.pc = "rv_211" ->
              IF options.randomize_mac /\ Truthy(original_mac)
              THEN /\ Driver(t, f, CycleMac(original_mac), Goto(f, "rv_217"), raise)
                   /\ UNCHANGED << current_spoof, hist >>
              ELSE /\ current_spoof' = NoSpoof
                   /\ active_since' = 0
                   /\ restores' = 0
                   /\ thr' = [thr EXCEPT ![t] = ReturnFn(f)]
                   /\ UNCHANGED << device, failed >>
         [] f.pc = "rv_215" ->
              /\ thr' = [thr EXCEPT ![t] =
                           IF current_spoof = NoSpoof THEN raise
                           ELSE IF current_spoof.type = "bluetooth"
                                   /\ Truthy(original_bt_name)
                           THEN CallFn([f EXCEPT !.arg = original_bt_name],
                                       "sb_198", "rv_217")
                           ELSE Goto(f, "rv_217")]
              /\ restores' = IF thr'[t].pc = "sb_198" THEN restores + 1 ELSE restores
              /\ UNCHANGED << current_spoof, device, failed, active_since >>
         [] f.pc = "rv_217" ->
              /\ current_spoof' = NoSpoof
              /\ active_since' = 0
              /\ restores' = 0
              /\ thr' = [thr EXCEPT ![t] = ReturnFn(f)]
              /\ UNCHANGED << device, failed >>
         [] OTHER -> FALSE
    /\ UNCHANGED << phase, options, lock, last_spoof, originals, now, log,
                    started >>

\* _log_spoof (lines 222-238): nothing when logging is off; else the entry is
\* built and appended under the lock (the append may fail, which is caught)
log_spoof(t) ==
    LET f == thr[t] IN
    /\ f.pc = "ls_224"
    /\ IF options.log_file = ""
       THEN UNCHANGED log
       ELSE /\ lock = 0
            /\ \E okW \in BOOLEAN :
                 log' = IF okW THEN Append(log, [spoof |-> current_spoof]) ELSE log
    /\ thr' = [thr EXCEPT ![t] = ReturnFn(f)]
    /\ UNCHANGED << phase, options, lock, selfvars, device, now, failed, started,
                    hist >>

\* on_unloaded (lines 117-121)
on_unloaded(t) ==
    LET f == thr[t] IN
    /\ CASE f.pc = "idle" ->
              /\ CanBegin(t)
              /\ phase' = "unloaded"
              /\ thr' = [thr EXCEPT ![t] =
                           CallFn(Begin("unloaded", "idle"), "rv_208", "un_120")]
         [] f.pc = "un_120" ->
              /\ lock = 0
              /\ thr' = [thr EXCEPT ![t] = IdleThread]
              /\ UNCHANGED phase
         [] OTHER -> FALSE
    /\ started' = IF f.pc = "idle" THEN started + 1 ELSE started
    /\ UNCHANGED << options, lock, selfvars, device, now, log, failed, hist >>

\* the candidate list of lines 253-263 for the detector's contents pw, fl
Candidates(pw, fl) ==
    (IF "pwnagotchi" \in options.spoof_targets
     THEN { [type |-> "wifi", name |-> i.name] : i \in pw } ELSE {})
    \cup
    (IF "flipper" \in options.spoof_targets
     THEN { [type |-> Lower(i.type), name |-> i.name] : i \in fl } ELSE {})

\* Line 302 without the check for "name"; C9_MalformedChangesNothing tells
\* it from WellFormedSpoof
WellFormedSpoof_noname(data) ==
    /\ data["action"] = "spoof"
    /\ "type" \in DOMAIN data

\* the condition of line 302 on the parsed body
WellFormedSpoof(data) ==
    /\ data["action"] = "spoof"
    /\ "type" \in DOMAIN data
    /\ "name" \in DOMAIN data

\* data[key]; a missing key is never read (line 302 guards lines 305-306)
Field(data, key) == IF key \in DOMAIN data THEN data[key] ELSE NoneVal

\* the apply call of lines 272-275 and 306: _spoof_wifi for type "wifi",
\* _spoof_bluetooth for every other type
ApplyTarget(spoof) == IF spoof.type = "wifi" THEN "sw_175" ELSE "sb_198"

\* a callback's locals that are dead once its decisions are taken
Settled(f) ==
    [f EXCEPT !.new_spoof = NoSpoof, !.cands = {}, !.ret = FALSE,
              !.spoof0 = NoSpoof, !.current_time = 0]

\* on_wifi_update (lines 240-279). The lock is held from "wu_253" on; at
\* "wu_249", "wu_266" and "wu_279" all that is left is the call of _update_ui.
on_wifi_update(t) ==
    LET f == thr[t] IN
    /\ CASE f.pc = "idle" ->
              /\ CanBegin(t)
              /\ thr' = [thr EXCEPT ![t] =
                           [Begin("wifi_update", "wu_243") EXCEPT !.current_time = now]]
              /\ UNCHANGED << lock, last_spoof, current_spoof, hist >>
         [] f.pc = "wu_243" ->
              /\ thr' = [thr EXCEPT ![t] =
                           IF f.current_time - last_spoof < CheckInterval
                           THEN IdleThread
                           ELSE Goto(f, "wu_245")]
              /\ UNCHANGED << lock, last_spoof, current_spoof, hist >>
         [] f.pc = "wu_245" ->
              /\ last_spoof' = f.current_time
              /\ \E detector \in BOOLEAN :
                   LET g == [Settled(f) EXCEPT !.late =
                               (f.current_time - last_spoof < CheckInterval)]
                   IN thr' = [thr EXCEPT ![t] =
                                IF detector THEN Goto(g, "wu_252")
                                ELSE CallFn(g, "rv_208", "wu_249")]
              /\ UNCHANGED << lock, current_spoof, hist >>
         [] f.pc = "wu_252" ->
              /\ lock = 0
              /\ lock' = t
              /\ thr' = [thr EXCEPT ![t] = Goto(f, "wu_253")]
              /\ UNCHANGED << last_spoof, current_spoof, hist >>
         [] f.pc = "wu_253" ->
              /\ \E pw \in SUBSET PwnInfos, fl \in SUBSET FlipperInfos :
                   LET c == Candidates(pw, fl)
                       g == [f EXCEPT !.cands = c, !.spoof0 = current_spoof]
                   IN IF c = {}
                      THEN thr' = [thr EXCEPT ![t] = CallFn(g, "rv_208", "wu_266")]
                      ELSE \E n \in c :
                             thr' = [thr EXCEPT ![t] =
                                       Goto([g EXCEPT !.new_spoof = n], "wu_270")]
              /\ UNCHANGED << lock, last_spoof, current_spoof, hist >>
         [] f.pc = "wu_270" ->
              /\ thr' = [thr EXCEPT ![t] =
                           IF f.new_spoof # current_spoof
                           THEN CallFn(f, "rv_208", "wu_272")
                           ELSE Goto(f, "wu_279")]
              /\ UNCHANGED << lock, last_spoof, current_spoof, hist >>
         [] f.pc = "wu_272" ->
              /\ thr' = [thr EXCEPT ![t] =
                           CallFn([f EXCEPT !.arg = f.new_spoof.name],
                                  ApplyTarget(f.new_spoof), "wu_276")]
              /\ UNCHANGED << lock, last_spoof, current_spoof, hist >>
         [] f.pc = "wu_276" ->
              IF f.ret
              THEN /\ current_spoof' = f.new_spoof
                   /\ active_since' = now
                   /\ restores' = 0
                   /\ thr' = [thr EXCEPT ![t] = CallFn(Settled(f), "ls_224", "wu_279")]
                   /\ UNCHANGED << lock, last_spoof >>
              ELSE /\ thr' = [thr EXCEPT ![t] = Goto(f, "wu_279")]
                   /\ UNCHANGED << lock, last_spoof, current_spoof, hist >>
         [] f.pc \in {"wu_249", "wu_266", "wu_279"} ->
              /\ thr' = [thr EXCEPT ![t] =
                           CallFn([Settled(f) EXCEPT !.invoked = FALSE,
                                                     !.derr = FALSE],
                                  "uu_283", "wu_exit")]
              /\ UNCHANGED << lock, last_spoof, current_spoof, hist >>
         [] f.pc = "wu_exit" ->
              /\ lock' = Released(t)
              /\ thr' = [thr EXCEPT ![t] = IdleThread]
              /\ UNCHANGED << last_spoof, current_spoof, hist >>
         [] OTHER -> FALSE
    /\ started' = IF f.pc = "idle" THEN started + 1 ELSE started
    /\ UNCHANGED << phase, options, originals, device, now, log, failed >>

\* on_webhook, POST to /spoofr (lines 296-314). At "wh_311" the handler is
\* about to return {"status": "success"}, at "wh_314" {"status": "error"}.
on_webhook(t) ==
    LET f == thr[t]
        data == f.body
    IN
    /\ CASE f.pc = "idle" ->
              /\ CanBegin(t)
              /\ \E b \in ParsedBodies \cup {Unparseable} :
                   thr' = [thr EXCEPT ![t] =
                             [Begin("webhook", "wh_298") EXCEPT !.body = b]]
              /\ UNCHANGED << lock, current_spoof, hist >>
         [] f.pc = "wh_298" ->
              /\ thr' = [thr EXCEPT ![t] =
                           IF data = Unparseable
                           THEN Goto(f, "wh_314")
                           ELSE IF "action" \notin DOMAIN data
                           THEN Goto(f, "wh_311")
                           ELSE IF data["action"] = "revert"
                           THEN CallFn(f, "rv_208", "wh_311")
                           ELSE IF WellFormedSpoof(data)
                           THEN Goto(f, "wh_303")
                           ELSE Goto(f, "wh_311")]
              /\ UNCHANGED << lock, current_spoof, hist >>
         [] f.pc = "wh_303" ->
              /\ lock = 0
              /\ lock' = t
              /\ thr' = [thr EXCEPT ![t] =
                           CallFn([f EXCEPT !.spoof0 = current_spoof],
                                  "rv_208", "wh_305")]
              /\ UNCHANGED << current_spoof, hist >>
         [] f.pc = "wh_305" ->
              LET n == [type |-> Field(data, "type"), name |-> Field(data, "name")] IN
              /\ thr' = [thr EXCEPT ![t] =
                           CallFn([f EXCEPT !.new_spoof = n, !.arg = n.name,
                                            !.spoof0 = NoSpoof],
                                  ApplyTarget(n), "wh_307")]
              /\ UNCHANGED << lock, current_spoof, hist >>
         [] f.pc = "wh_307" ->
              IF f.ret
              THEN /\ current_spoof' = f.new_spoof
                   /\ thr' = [thr EXCEPT ![t] =
                                CallFn([f EXCEPT !.new_spoof = NoSpoof],
                                       "ls_224", "wh_309")]
                   /\ active_since' = now
                   /\ restores' = 0
                   /\ UNCHANGED lock
              ELSE /\ thr' = [thr EXCEPT ![t] =
                                Goto([f EXCEPT !.new_spoof = NoSpoof], "wh_309")]
                   /\ UNCHANGED << lock, current_spoof, hist >>
         [] f.pc = "wh_309" ->
              /\ lock' = 0
              /\ thr' = [thr EXCEPT ![t] = CallFn(f, "uu_283", "wh_311")]
              /\ UNCHANGED << current_spoof, hist >>
         [] f.pc \in {"wh_311", "wh_314"} ->
              /\ thr' = [thr EXCEPT ![t] = IdleThread]
              /\ UNCHANGED << lock, current_spoof, hist >>
         [] OTHER -> FALSE
    /\ started' = IF f.pc = "idle" THEN started + 1 ELSE started
    /\ UNCHANGED << phase, options, last_spoof, originals, device, now, log, failed >>

Next ==
    \/ Tick
    \/ on_loaded
    \/ \E t \in Threads : on_ui_update(t)
    \/ \E t \in Threads : update_ui(t)
    \/ \E t \in Threads : on_wifi_update(t)
    \/ \E t \in Threads : on_webhook(t)
    \/ \E t \in Threads : on_unloaded(t)
    \/ \E t \in Threads : revert_spoof(t)
    \/ \E t \in Threads : spoof_wifi(t)
    \/ \E t \in Threads : spoof_bluetooth(t)
    \/ \E t \in Threads : log_spoof(t)

Spec == Init /\ [][Next]_vars

\* A callback that has started keeps running while it can: the scheduler
\* runs every thread that is not blocked. Nothing obliges the host to start
\* a callback.
Step(t) ==
    \/ on_ui_update(t) \/ update_ui(t) \/ on_wifi_update(t) \/ on_webhook(t)
    \/ on_unloaded(t) \/ revert_spoof(t) \/ spoof_wifi(t) \/ spoof_bluetooth(t)
    \/ log_spoof(t)
Continue(t) == thr[t].pc # "idle" /\ Step(t)
FairSpec == Spec /\ \A t \in Threads : WF_vars(Continue(t))

-----------------------------------------------------------------------------
\* Properties

\* the driver name of one kind, as _spoof_wifi and _spoof_bluetooth set it
NameOfKind(kind) == IF kind = "wifi" THEN device.ssid ELSE device.bt
\* the captured original of one kind
OriginalOfKind(kind) == IF kind = "wifi" THEN original_ssid ELSE original_bt_name

\* C1: when a poll passes the rate limit, picks a candidate different from
\* the active spoof and the apply of that candidate fails (after the revert
\* of the old one), the active spoof is None and the poll appended no log
\* entry.
C1_FailedApplyLeavesInactive ==
    \A t \in Threads :
        (thr[t].op = "wifi_update" /\ thr[t].pc = "wu_276" /\ ~thr[t].ret)
            => (current_spoof = NoSpoof /\ Len(log) = thr[t].log0)

\* C2: a poll with logging on whose only candidate c was applied
\* successfully returns, leaving c active and exactly one log entry (so that
\* the next poll with the same candidate finds c active and does nothing).
C2_FirstPollCompletes ==
    \A t \in Threads :
        [](( /\ thr[t].op = "wifi_update" /\ thr[t].pc = "wu_276"
             /\ thr[t].ret /\ thr[t].cands = {thr[t].new_spoof}
             /\ options.log_file # "" /\ thr[t].log0 = 0 )
           => <>( /\ thr[t].pc = "idle" /\ Len(log) = 1 ))

\* C3: when a poll passes the rate limit with an active spoof r and an empty
\* candidate set, after its revert the active spoof is None, also when the
\* revert's driver call failed.
C3_EmptyCandidatesRevert ==
    \A t \in Threads :
        (thr[t].op = "wifi_update" /\ thr[t].pc = "wu_266"
         /\ SpoofSet(thr[t].spoof0))
            => current_spoof = NoSpoof

\* C4: a revert entered while the active spoof is None returns at once: it
\* runs no driver command and changes neither the device names, the active
\* spoof, the captured originals nor the log.
C4_IdempotentRevert ==
    [][\A t \in Threads :
          (thr[t].pc = "rv_208" /\ current_spoof = NoSpoof /\ thr'[t] # thr[t])
              => /\ thr'[t].pc = Head(thr[t].stack)
                 /\ thr'[t].invoked = thr[t].invoked
                 /\ UNCHANGED <<device, log, current_spoof, originals,
                                last_spoof>>]_vars

\* C4 witness: a second callback, a revert command, is past its revert with
\* the active spoof None, no driver command run and the device untouched
C4_Witness ==
    \E t \in Threads :
        /\ thr[t].op = "webhook" /\ thr[t].pc = "wh_311"
        /\ thr[t].body = [action |-> "revert"]
        /\ ~thr[t].invoked /\ started = 2
        /\ current_spoof = NoSpoof /\ device.ssid = HomeSsid

\* no callback is in progress
Quiescent == \A t \in Threads : thr[t].pc = "idle"

\* C5: with no driver failure so far, whenever no callback is in progress the
\* active spoof and the device agree: with no active spoof both names are
\* the captured originals, otherwise the name of the active spoof's kind is
\* the active spoof's name.
C5_ActiveMatchesDevice ==
    (phase # "constructed" /\ ~failed /\ Quiescent)
        => IF current_spoof = NoSpoof
           THEN device.ssid = original_ssid /\ device.bt = original_bt_name
           ELSE NameOfKind(current_spoof.type) = current_spoof.name

\* the lines of _revert_spoof, _spoof_wifi and _spoof_bluetooth
RevertLabels ==
    {"rv_208", "rv_209", "rv_211", "rv_215", "rv_217", "sw_175", "sw_184",
     "sb_198"}

\* the unload callback has run to its end
UnloadDone ==
    phase = "unloaded" /\ \A t \in Threads : thr[t].op # "unloaded"

\* C6: the revert of unload runs under the engine lock, and once unload has
\* finished the active spoof is None, whatever a concurrent poll does.
C6_UnloadRevertLocked ==
    /\ \A t \in Threads :
          (thr[t].op = "unloaded" /\ thr[t].pc \in RevertLabels) => lock = t
    /\ UnloadDone => current_spoof = NoSpoof

\* the lines at which a thread waits for the engine lock
LockLabels == {"wu_252", "wh_303", "un_120", "uu_283", "ls_224"}

\* C7: no entry point waits for the engine lock while holding it itself, so
\* none blocks forever on its own lock.
C7_NoSelfDeadlock ==
    \A t \in Threads :
        (thr[t].pc \in LockLabels
         /\ (thr[t].pc = "ls_224" => options.log_file # ""))
            => lock # t

\* a POST body the control endpoint must reject
Malformed(data) ==
    \/ data = Unparseable
    \/ /\ "action" \in DOMAIN data
       /\ data["action"] = "spoof"
       /\ ~("type" \in DOMAIN data /\ "name" \in DOMAIN data)

\* C8: a POST whose body cannot be parsed, or is a spoof command without
\* type or name, never gets the success response.
C8_MalformedGetsError ==
    \A t \in Threads :
        (thr[t].op = "webhook" /\ thr[t].pc = "wh_311")
            => ~Malformed(thr[t].body)

\* C9: while the control endpoint handles a malformed POST it runs no driver
\* command, takes no lock and changes neither the device, the active spoof
\* nor the log.
C9_MalformedChangesNothing ==
    [][\A t \in Threads :
          (thr[t].op = "webhook" /\ Malformed(thr[t].body))
              => /\ ~thr[t].invoked
                 /\ thr'[t] # thr[t]
                       => UNCHANGED <<device, log, current_spoof, lock,
                                      originals>>]_vars

\* C9 witness: a malformed spoof command is about to be answered while a
\* spoof is active
C9_Witness ==
    \E t \in Threads :
        /\ thr[t].op = "webhook" /\ thr[t].pc \in {"wh_311", "wh_314"}
        /\ thr[t].body \in MalformedSpoofs
        /\ SpoofSet(current_spoof)
        /\ NameOfKind(current_spoof.type) = current_spoof.name

\* C10: a well-formed spoof command n that arrives while r of another kind is
\* active first restores the name of r's kind to its captured original (no
\* driver failure so far) before it sets the name of n's kind.
C10_ReplaceRestoresFirst ==
    \A t \in Threads :
        (/\ thr[t].op = "webhook" /\ thr[t].pc = "wh_305"
         /\ SpoofSet(thr[t].spoof0)
         /\ thr[t].spoof0.type # thr[t].body["type"]
         /\ ~failed)
            => NameOfKind(thr[t].spoof0.type) = OriginalOfKind(thr[t].spoof0.type)

\* C11: whenever _revert_spoof was called with an active spoof (by a poll or
\* a spoof command, which hold the lock since they read it), the active spoof
\* is None when it returns, whichever of its driver calls failed.
C11_RevertEndsInactive ==
    \A t \in Threads :
        (thr[t].pc \in {"wu_266", "wu_272", "wh_305"} /\ SpoofSet(thr[t].spoof0))
            => current_spoof = NoSpoof

\* C12: a poll that passed the rate limit less than check_interval after
\* another poll did (two overlapping polls) does no work: it runs no driver
\* command and appends no log entry.
C12_LatePollIsNoOp ==
    \A t \in Threads :
        (thr[t].op = "wifi_update" /\ thr[t].late)
            => (~thr[t].invoked /\ Len(log) = thr[t].log0)

\* C13: when a poll has taken its decision (it is at the closing _update_ui
\* of line 279), no spoof is active that had been held for spoof_duration or
\* longer when the poll arrived: a spoof held that long has been reverted.
\* With no other poll in progress, _last_spoof is the time this poll arrived.
C13_BoundedHold ==
    \A t \in Threads :
        (/\ thr[t].op = "wifi_update" /\ thr[t].pc = "wu_279"
         /\ \A u \in Threads \ {t} : thr[u].op # "wifi_update"
         /\ SpoofSet(current_spoof))
            => last_spoof - active_since < options.spoof_duration

\* C14: a revert command or a well-formed spoof command gets the success
\* response only if no driver call of its revert or apply failed.
C14_SuccessMeansDone ==
    \A t \in Threads :
        (/\ thr[t].op = "webhook" /\ thr[t].pc = "wh_311"
         /\ thr[t].body \in WellFormedSpoofs \cup { [action |-> "revert"] })
            => ~thr[t].derr

\* C15: with logging on, a change of the active spoof is followed by its log
\* entry: once a poll or a spoof command has set the active spoof and called
\* _log_spoof on an empty log, the log comes to hold one entry, which records
\* the new active spoof.
C15_TransitionLogged ==
    \A t \in Threads :
        [](( /\ thr[t].pc = "ls_224" /\ options.log_file # ""
             /\ SpoofSet(current_spoof) /\ Len(log) = 0 )
           => <>( /\ Len(log) = 1 /\ SpoofSet(log[1].spoof) ))

\* the status text the display must show for an active spoof (or none): the
\* name cut to 20 characters, a line break, the kind title-cased
StatusText(spoof) ==
    IF spoof = NoSpoof THEN "Spoof: None"
    ELSE "Spoof: "
         \o (IF spoof.name = LongName THEN "unitA.with.a.long.ho" ELSE spoof.name)
         \o "\n"
         \o (CASE spoof.type = "wifi" -> "Wifi"
               [] spoof.type = "bluetooth" -> "Bluetooth"
               [] spoof.type = "radio" -> "Radio")

\* C16: whenever _update_ui publishes a text, it is the status text of the
\* active spoof as it is at that moment, under the lock: "Spoof: None" when
\* none is active, else the name cut to 20 characters and the kind
\* title-cased.
C16_StatusText ==
    [][\A t \in Threads :
          (thr[t].pc \in {"uu_283", "uu_286"}
           /\ thr'[t].display_text # thr[t].display_text)
              => thr'[t].display_text = StatusText(current_spoof)]_vars

\* C16 witness: a display refresh has published the text of an active spoof
\* whose name is longer than 20 characters
C16_Witness ==
    \E t \in Threads :
        /\ thr[t].op = "ui_update" /\ thr[t].pc = "ui_292"
        /\ current_spoof = [type |-> "wifi", name |-> LongName]
        /\ thr[t].display_text = "Spoof: unitA.with.a.long.ho\nWifi"

\* the lines at which the next step runs a driver command or writes
\* self._current_spoof
MutationLabels ==
    {"sw_175", "sw_184", "sb_198", "rv_211", "rv_217", "wu_276", "wh_307"}

\* C17: a thread that is about to run a driver command or to write the active
\* spoof holds the engine lock, on every path.
C17_SingleCriticalSection ==
    \A t \in Threads : thr[t].pc \in MutationLabels => lock = t

\* C18: the original identity is restored exactly once per applied spoof:
\* never more than one restore call is made for the active spoof, and when
\* the active spoof becomes None exactly one has been made.
C18_RestoredExactlyOnce ==
    [][/\ restores' <= 1
       /\ (SpoofSet(current_spoof) /\ current_spoof' = NoSpoof) => restores = 1]_vars

\* C19: the device's names are never set to a value that was not read from
\* it: not to the placeholder ("pwnagotchi") that stands in the original
\* fields when their capture failed.
C19_UnknownOriginalNotWritten ==
    /\ device.ssid # DefaultName
    /\ device.bt # DefaultName

\* C20: a driver command is run only after on_loaded has assigned the
\* original-state fields, and from then on no step changes them.
C20_OriginalsImmutable ==
    [][/\ phase # "constructed" => UNCHANGED originals
       /\ (device' # device \/ \E t \in Threads : thr'[t].invoked /\ ~thr[t].invoked)
             => (phase # "constructed" /\ UNCHANGED originals)]_vars

\* C20 witness: a spoof was applied and reverted with driver commands, and
\* the original fields still hold what on_loaded read
C20_Witness ==
    /\ \E t \in Threads : thr[t].invoked /\ thr[t].pc = "wh_311"
                          /\ thr[t].body = [action |-> "revert"]
    /\ started = 2 /\ current_spoof = NoSpoof
    /\ original_ssid = HomeSsid /\ original_bt_name = HomeBt
    /\ original_mac = HomeMac

\* C21: when the apply of a network-kind record has set the network name and
\* the MAC cycling then failed (in the first callback after on_loaded, with
\* randomize_mac: the SSID is the record's name and the MAC is still the
\* device's own), the apply reports success, so that the caller makes the
\* record the active spoof.
C21_MacFailureKeepsName ==
    \A t \in Threads :
        (/\ started = 1 /\ options.randomize_mac
         /\ thr[t].pc \in {"wu_276", "wh_307"}
         /\ thr[t].new_spoof.type = "wifi"
         /\ device.ssid = thr[t].new_spoof.name
         /\ device.mac = HomeMac)
            => thr[t].ret

====
